---- MODULE Spec2Model ----
(***************************************************************************)
(* Model of src/app.py: the AI Security Config Scanner.                    *)
(*                                                                         *)
(*   parse_uploaded_file  (Content Normalizer, lines 41-75)                *)
(*   call_llm             (Audit Requester,   lines 78-109)                *)
(*   the scan handler     (Streamlit script,  lines 117-148)               *)
(*                                                                         *)
(* Text is a sequence of pieces.  A piece is one character of file         *)
(* content, or one fixed message of the program or of a library.           *)
(***************************************************************************)
EXTENDS Integers, Sequences, FiniteSets, TLC

VARIABLES
    uploaded,   \* the UploadedFile object the uploader widget holds, or NoFile
    pos,        \* read cursor of that file object
    calls,      \* parse_uploaded_file calls made on that file object
    parsed,     \* outcome of the last parse_uploaded_file call
    firstText,  \* what the first call on this file object returned
    pc,         \* scan handler: "idle", or "waiting" inside client.responses.create
    notes,      \* content of the instructions text area
    request,    \* the request sent to the model service by the current scan
    sent,       \* requests issued by the current scan
    scans,      \* scans triggered with a file uploaded
    report,     \* what st.markdown shows under "Security Findings"
    download,   \* what st.download_button offers
    surfaced,   \* the error the page shows for the current run
    response,   \* the response object client.responses.create returned
    result      \* outcome of the extraction of call_llm on that response

vars == <<uploaded, pos, calls, parsed, firstText, pc, notes, request, sent,
          scans, report, download, surfaced, response, result>>

normVars == <<uploaded, pos, calls, parsed, firstText>>
scanVars == <<pc, notes, request, sent, scans, report, download, surfaced>>
llmVars  == <<response, result>>

----------------------------------------------------------------------------
(* Bounds *)

MaxLen == 3     \* bytes in an uploaded text file
MaxCells == 5   \* cells of a spreadsheet, the header row included
MaxCalls == 2   \* parse_uploaded_file calls on one file object
MaxItems == 2   \* items in response.output
MaxContent == 1 \* entries in the content list of an output item
MaxScans == 2   \* scans in one session

----------------------------------------------------------------------------
(* Text helpers *)

RECURSIVE Concat(_)
Concat(ss) == IF ss = <<>> THEN <<>> ELSE Head(ss) \o Concat(Tail(ss))

SeqsUpTo(S, n) == UNION {[1..k -> S] : k \in 0..n}

Spaces(n) == [k \in 1..n |-> " "]

Contains(s, c) == \E i \in 1..Len(s) : s[i] = c

Count(s, c) == Cardinality({i \in 1..Len(s) : s[i] = c})

\* str.lower, on the letters the file names use
LowerChar(c) ==
    CASE c = "C" -> "c" [] c = "J" -> "j" [] c = "S" -> "s" [] c = "O" -> "o"
      [] c = "N" -> "n" [] c = "X" -> "x" [] c = "L" -> "l"
      [] OTHER -> c

lower(s) == [i \in 1..Len(s) |-> LowerChar(s[i])]

\* str.endswith
endswith(s, suf) ==
    /\ Len(suf) <= Len(s)
    /\ SubSeq(s, Len(s) - Len(suf) + 1, Len(s)) = suf

EXT_XLSX == <<".", "x", "l", "s", "x">>
EXT_YAML == <<".", "y", "a", "m", "l">>
EXT_YML  == <<".", "y", "m", "l">>
EXT_JSON == <<".", "j", "s", "o", "n">>
EXT_TF   == <<".", "t", "f">>

----------------------------------------------------------------------------
(* Uploaded files *)

BadByte == "xFF"                       \* a byte no UTF-8 text contains
Chars == {"[", "]", "1", ","}
Bytes == Chars \cup {BadByte}

\* What pd.read_excel makes of a file: a DataFrame, or an exception.
NoBook == [ok |-> FALSE, columns |-> <<>>, rows |-> <<>>,
           err |-> "Excel file format cannot be determined"]

\* Cell values: NaN (an empty cell) is the empty text.
Cells == {<<>>, <<"a">>, <<",">>, <<"\n">>, <<"\"">>}

\* Column labels are distinct and never empty.
Labels(k) == {<<"h", ToString(k)>>, <<"h", ",", ToString(k)>>}

\* The sheets of m >= 1 columns and n >= 0 data rows that fit in MaxCells.
Shapes == {sh \in (1..MaxCells) \X (0..MaxCells) : sh[1] * (sh[2] + 1) <= MaxCells}

DataFrames ==
    UNION {
      { [ok |-> TRUE, columns |-> c, rows |-> r, err |-> ""] :
          c \in {h \in [1..sh[1] -> UNION {Labels(k) : k \in 1..sh[1]}] :
                   \A k \in 1..sh[1] : h[k] \in Labels(k)},
          r \in [1..sh[2] -> [1..sh[1] -> Cells]] }
      : sh \in Shapes }

TextNames == { <<"c">> \o EXT_YAML, <<"c">> \o EXT_YML, <<"C">> \o <<".", "J", "S", "O", "N">>,
               <<"c">> \o EXT_TF, <<"c">> \o EXT_XLSX }

BookNames == { <<"c">> \o <<".", "X", "L", "S", "X">> }

ZipBytes == <<BadByte>>                \* a workbook is a zip archive, not text

NoFile == [name |-> <<>>, bytes |-> <<>>, book |-> NoBook]

TextFiles == { [name |-> n, bytes |-> b, book |-> NoBook] :
                 n \in TextNames, b \in SeqsUpTo(Bytes, MaxLen) }

BookFiles == { [name |-> n, bytes |-> ZipBytes, book |-> d] :
                 n \in BookNames, d \in DataFrames }

Files == TextFiles \cup BookFiles

----------------------------------------------------------------------------
(* json.loads / json.dumps(indent=2), on the texts over Chars:             *)
(*   value ::= "1"+  |  "[" "]"  |  "[" value ("," value)* "]"             *)

Num(text)   == [t |-> "num",  text |-> text, items |-> <<>>]
Str(text)   == [t |-> "str",  text |-> text, items |-> <<>>]
Null        == [t |-> "null", text |-> <<>>, items |-> <<>>]
List(items) == [t |-> "list", text |-> <<>>, items |-> items]

Parsed(v, next) == [ok |-> TRUE, val |-> v, next |-> next]
ParseError      == [ok |-> FALSE, val |-> Null, next |-> 0]

\* the first index >= i of s that holds no digit
RECURSIVE DigitsEnd(_, _)
DigitsEnd(s, i) == IF i <= Len(s) /\ s[i] = "1" THEN DigitsEnd(s, i + 1) ELSE i

RECURSIVE json_value(_, _), json_items(_, _, _)
json_value(s, i) ==
    IF i > Len(s) THEN ParseError
    ELSE IF s[i] = "1"
      THEN Parsed(Num(SubSeq(s, i, DigitsEnd(s, i) - 1)), DigitsEnd(s, i))
    ELSE IF s[i] = "["
      THEN IF i + 1 <= Len(s) /\ s[i + 1] = "]"
             THEN Parsed(List(<<>>), i + 2)
             ELSE json_items(s, i + 1, <<>>)
    ELSE ParseError

json_items(s, i, acc) ==
    LET v == json_value(s, i) IN
    IF ~v.ok \/ v.next > Len(s) THEN ParseError
    ELSE IF s[v.next] = "," THEN json_items(s, v.next + 1, Append(acc, v.val))
    ELSE IF s[v.next] = "]" THEN Parsed(List(Append(acc, v.val)), v.next + 1)
    ELSE ParseError

json_loads(s) ==
    LET v == json_value(s, 1) IN
    IF v.ok /\ v.next = Len(s) + 1 THEN v ELSE ParseError

RECURSIVE json_dump(_, _), json_join(_, _, _)
json_dump(v, level) ==
    IF v.t = "num" THEN v.text
    ELSE IF Len(v.items) = 0 THEN <<"[", "]">>
    ELSE <<"[", "\n">> \o json_join(v.items, 1, level + 1)
           \o <<"\n">> \o Spaces(2 * level) \o <<"]">>

json_join(items, k, level) ==
    Spaces(2 * level) \o json_dump(items[k], level)
      \o (IF k = Len(items) THEN <<>>
          ELSE <<",", "\n">> \o json_join(items, k + 1, level))

json_dumps(v) == json_dump(v, 0)

----------------------------------------------------------------------------
(* yaml.safe_load / yaml.safe_dump(sort_keys=False), on the texts over     *)
(* Chars.  Outside a flow collection a plain scalar runs to the end of     *)
(* the line; "[" opens a flow sequence, in which "," separates, a          *)
(* trailing "," is allowed and a plain scalar stops at "," "[" and "]".    *)

RECURSIVE yaml_flow_seq(_, _, _)
yaml_flow_seq(s, i, acc) ==
    IF i > Len(s) THEN ParseError
    ELSE IF s[i] = "]" THEN Parsed(List(acc), i + 1)
    ELSE IF s[i] = "," THEN ParseError
    ELSE LET v == IF s[i] = "["
                    THEN yaml_flow_seq(s, i + 1, <<>>)
                    ELSE Parsed(Num(SubSeq(s, i, DigitsEnd(s, i) - 1)),
                                DigitsEnd(s, i))
         IN IF ~v.ok \/ v.next > Len(s) THEN ParseError
            ELSE IF s[v.next] = ","
              THEN yaml_flow_seq(s, v.next + 1, Append(acc, v.val))
            ELSE IF s[v.next] = "]"
              THEN Parsed(List(Append(acc, v.val)), v.next + 1)
            ELSE ParseError

yaml_safe_load(s) ==
    IF Len(s) = 0 THEN Parsed(Null, 1)
    ELSE IF s[1] = "["
      THEN LET v == yaml_flow_seq(s, 2, <<>>) IN
           IF v.ok /\ v.next = Len(s) + 1 THEN v ELSE ParseError
    ELSE IF s[1] \in {"]", ","} THEN ParseError
    ELSE IF DigitsEnd(s, 1) = Len(s) + 1
      THEN Parsed(Num(s), Len(s) + 1)
      ELSE Parsed(Str(s), Len(s) + 1)

\* a block node written at the current column, ending its last line
RECURSIVE yaml_block(_, _), yaml_entries(_, _, _)
yaml_block(v, indent) ==
    IF v.t = "null" THEN <<"n", "u", "l", "l", "\n">>
    ELSE IF v.t \in {"num", "str"} THEN v.text \o <<"\n">>
    ELSE IF Len(v.items) = 0 THEN <<"[", "]", "\n">>
    ELSE yaml_entries(v.items, 1, indent)

yaml_entries(items, k, indent) ==
    (IF k = 1 THEN <<>> ELSE Spaces(indent))
      \o <<"-", " ">> \o yaml_block(items[k], indent + 2)
      \o (IF k = Len(items) THEN <<>> ELSE yaml_entries(items, k + 1, indent))

\* a scalar document ends with the document end marker
yaml_safe_dump(v) ==
    yaml_block(v, 0)
      \o (IF v.t = "list" THEN <<>> ELSE <<".", ".", ".", "\n">>)

----------------------------------------------------------------------------
(* DataFrame.to_csv(index=False): the csv module's minimal quoting         *)

NeedsQuote(cell) == Contains(cell, ",") \/ Contains(cell, "\"") \/ Contains(cell, "\n")

DoubleQuotes(cell) ==
    Concat([i \in 1..Len(cell) |->
              IF cell[i] = "\"" THEN <<"\"", "\"">> ELSE <<cell[i]>>])

\* csv_field with the quoting left out
csv_field_unquoted(cell) == cell

csv_field(cell) ==
    IF NeedsQuote(cell) THEN <<"\"">> \o DoubleQuotes(cell) \o <<"\"">> ELSE cell

\* a record of one empty field is written as "" so that it is not a blank line
csv_row(cells) ==
    IF Len(cells) = 1 /\ cells[1] = <<>> THEN <<"\"", "\"", "\n">>
    ELSE Concat([k \in 1..Len(cells) |->
                   (IF k = 1 THEN <<>> ELSE <<",">>) \o csv_field(cells[k])])
           \o <<"\n">>

to_csv(df) ==
    csv_row(df.columns) \o Concat([n \in 1..Len(df.rows) |-> csv_row(df.rows[n])])

----------------------------------------------------------------------------
(* parse_uploaded_file *)

Return(value, content, p, path) ==
    [kind |-> "return", value |-> value, content |-> content, pos |-> p, path |-> path]

Raise(exc, content, p, path) ==
    [kind |-> "raise", value |-> <<exc>>, content |-> content, pos |-> p, path |-> path]

NoOutcome ==
    [kind |-> "none", value |-> <<>>, content |-> <<>>, pos |-> 0, path |-> "none"]

\* pd.read_excel(uploaded_file): the workbook the bytes hold, or an exception
read_excel(f) == f.book

\* Where pd.read_excel may leave the cursor of the file object it was given:
\* the code does not set it afterwards.
ExcelCursors(f) == 0..Len(f.bytes)

\* lines 45-50: the spreadsheet branch; every Exception becomes a string
xlsx_branch(f, excel_pos) ==
    LET df == read_excel(f) IN
    IF df.ok
      THEN Return(to_csv(df), <<>>, excel_pos, "xlsx_ok")
      ELSE Return(<<"ERROR reading Excel: ", df.err>>, <<>>, excel_pos, "xlsx_err")

\* uploaded_file.read(): the bytes from the cursor on; the cursor moves to the end
read(f, p) == SubSeq(f.bytes, p + 1, Len(f.bytes))

\* bytes.decode("utf-8")
decode(data) ==
    IF Contains(data, BadByte)
      THEN [ok |-> FALSE, text |-> <<>>]
      ELSE [ok |-> TRUE, text |-> data]

\* yaml_branch with an except clause that returns nothing of the file
yaml_branch_empty(content) ==
    LET r == yaml_safe_load(content) IN
    IF r.ok
      THEN Return(yaml_safe_dump(r.val), content, 0, "yaml_ok")
      ELSE Return(<<>>, content, 0, "yaml_err")

\* lines 60-65: YAML; on any exception the raw text
yaml_branch(content) ==
    LET r == yaml_safe_load(content) IN
    IF r.ok
      THEN Return(yaml_safe_dump(r.val), content, 0, "yaml_ok")
      ELSE Return(content, content, 0, "yaml_err")

\* json_branch without its try: the parser's exception leaves the function
json_branch_unguarded(content) ==
    LET r == json_loads(content) IN
    IF r.ok
      THEN Return(json_dumps(r.val), content, 0, "json_ok")
      ELSE Raise("JSONDecodeError", content, 0, "json_err")

\* lines 68-73: JSON; on any exception the raw text
json_branch(content) ==
    LET r == json_loads(content) IN
    IF r.ok
      THEN Return(json_dumps(r.val), content, 0, "json_ok")
      ELSE Return(content, content, 0, "json_err")

\* lines 53-57: read and decode; seek(0) only after a successful decode
text_branch(f, p, filename) ==
    LET d == decode(read(f, p)) IN
    IF ~d.ok
      THEN Return(<<"Unable to decode file.">>, <<>>, Len(f.bytes), "decode_err")
    ELSE IF endswith(filename, EXT_YAML) \/ endswith(filename, EXT_YML)
      THEN yaml_branch(d.text)
    ELSE IF endswith(filename, EXT_JSON)
      THEN json_branch(d.text)
    ELSE Return(d.text, d.text, 0, "raw")

\* p: the cursor of the file object at the call;
\* excel_pos: where pd.read_excel leaves it, when it is called
parse_uploaded_file(f, p, excel_pos) ==
    LET filename == lower(f.name) IN
    IF endswith(filename, EXT_XLSX)
      THEN xlsx_branch(f, excel_pos)
      ELSE text_branch(f, p, filename)

----------------------------------------------------------------------------
(* The response of client.responses.create, and the scan handler's state   *)

NoRequest == [id |-> 0, prompt |-> <<>>]
NoResponse == [has_output_text |-> FALSE, output_text |-> <<>>,
               has_output |-> FALSE, output |-> <<>>]
NoReport == [shown |-> FALSE, text |-> <<>>]
NoDownload == [offered |-> FALSE, data |-> <<>>, file_name |-> <<>>, mime |-> ""]

ScanIdle ==
    /\ pc = "idle" /\ notes = <<>> /\ request = NoRequest /\ sent = 0 /\ scans = 0
    /\ report = NoReport /\ download = NoDownload /\ surfaced = "none"

LlmIdle == response = NoResponse /\ result = NoOutcome

----------------------------------------------------------------------------
(* call_llm *)

T1 == <<"FOUND: 1 HIGH issue">>
T2 == <<"No issues found.">>

\* an entry of item.content: with a text attribute (output text) or without
\* one (a refusal)
Entries == {[has_text |-> FALSE, text |-> <<>>]}
             \cup {[has_text |-> TRUE, text |-> t] : t \in {T1, T2}}

\* an item of response.output: with a content attribute (a message) or without
\* one (a tool call)
Items == {[has_content |-> FALSE, content |-> <<>>]}
           \cup {[has_content |-> TRUE, content |-> c] : c \in SeqsUpTo(Entries, MaxContent)}

ResponsesOf(outputs) ==
    { [has_output_text |-> ht, output_text |-> IF ht THEN T2 ELSE <<>>,
       has_output |-> TRUE, output |-> o] : ht \in BOOLEAN, o \in outputs }
      \cup
    { [has_output_text |-> ht, output_text |-> IF ht THEN T2 ELSE <<>>,
       has_output |-> FALSE, output |-> <<>>] : ht \in BOOLEAN }

Responses == ResponsesOf(SeqsUpTo(Items, MaxItems))

\* str(response)
str(r) == <<"Response(...)">>

Returned(value, path) == Return(value, <<>>, 0, path)
Raised(exc, path) == Raise(exc, <<>>, 0, path)

\* lines 106-109, inside the except clause: an error here leaves call_llm
RECURSIVE scan_output(_, _)
scan_output(r, k) ==
    IF k > Len(r.output) THEN Returned(str(r), "str")
    ELSE IF r.output[k].has_content
      THEN IF Len(r.output[k].content) = 0 THEN Raised("IndexError", "item")
           ELSE IF ~r.output[k].content[1].has_text THEN Raised("AttributeError", "item")
           ELSE Returned(r.output[k].content[1].text, "item")
    ELSE scan_output(r, k + 1)

\* lines 101-109: the text of the response
extract_text(r) ==
    IF r.has_output_text THEN Returned(r.output_text, "output_text")
    ELSE IF ~r.has_output THEN Raised("AttributeError", "output")
    ELSE scan_output(r, 1)

\* lines 79-90: the user message
build_prompt(file_content, user_notes) ==
    <<"\n### Configuration File Content: \n\n">> \o file_content
      \o <<"\n\n\n### Additional User Instruction:\n">> \o user_notes
      \o <<"\n\n### Task:\nPerform a full security audit of this configuration.\n">>

\* what client.responses.create raises when the call fails
NetErrors == {"AuthenticationError", "APIConnectionError", "RateLimitError"}

----------------------------------------------------------------------------
(* Normalizer: parse_uploaded_file called again and again on a file object *)

NormInit ==
    /\ uploaded \in Files
    /\ pos = 0 /\ calls = 0 /\ parsed = NoOutcome /\ firstText = <<>>
    /\ ScanIdle /\ LlmIdle

Parse ==
    /\ calls < MaxCalls
    /\ \E excel_pos \in ExcelCursors(uploaded) :
         LET o == parse_uploaded_file(uploaded, pos, excel_pos) IN
         /\ parsed' = o
         /\ pos' = o.pos
         /\ firstText' = IF calls = 0 THEN o.value ELSE firstText
    /\ calls' = calls + 1
    /\ UNCHANGED <<uploaded, scanVars, llmVars>>

NormNext == Parse

SpecNormalizer == NormInit /\ [][NormNext]_vars

----------------------------------------------------------------------------
(* Requester: the extraction of call_llm on a canned response *)

LlmInit ==
    /\ response \in Responses /\ result = NoOutcome
    /\ uploaded = NoFile /\ pos = 0 /\ calls = 0 /\ parsed = NoOutcome
    /\ firstText = <<>> /\ ScanIdle

Extract ==
    /\ result.kind = "none"
    /\ result' = extract_text(response)
    /\ UNCHANGED <<response, normVars, scanVars>>

LlmNext == Extract

SpecRequester == LlmInit /\ [][LlmNext]_vars

----------------------------------------------------------------------------
(* The page: one script run per user action *)

Notes == {<<>>, <<"focus on IAM roles only">>}

ScanFrames == {d \in DataFrames : Len(d.columns) * (Len(d.rows) + 1) <= 2}

ScanFiles ==
    { [name |-> n, bytes |-> b, book |-> NoBook] :
        n \in TextNames, b \in SeqsUpTo(Bytes, 1) }
      \cup
    { [name |-> n, bytes |-> ZipBytes, book |-> d] : n \in BookNames, d \in ScanFrames }

ScanResponses == ResponsesOf(SeqsUpTo(Items, 1))

report_file_name(name) == name \o <<"_security_report.md">>

Init ==
    /\ uploaded = NoFile /\ pos = 0 /\ calls = 0 /\ parsed = NoOutcome
    /\ firstText = <<>> /\ ScanIdle /\ LlmIdle

\* line 117: the user picks a file; the script reruns with the button not
\* pressed, so nothing of the previous run is left on the page
Upload ==
    /\ pc = "idle"
    /\ \E f \in ScanFiles : uploaded' = f
    /\ pos' = 0 /\ calls' = 0 /\ parsed' = NoOutcome /\ firstText' = <<>>
    /\ notes' = <<>> /\ request' = NoRequest
    /\ report' = NoReport /\ download' = NoDownload /\ surfaced' = "none"
    /\ response' = NoResponse /\ result' = NoOutcome
    /\ UNCHANGED <<pc, sent, scans>>

\* lines 126-128: the button, with no file uploaded
ClickWithoutFile ==
    /\ pc = "idle" /\ uploaded = NoFile
    /\ surfaced' = "Please upload a configuration file first."
    /\ report' = NoReport /\ download' = NoDownload
    /\ UNCHANGED <<normVars, pc, notes, request, sent, scans, llmVars>>

\* the paths of parse_uploaded_file that return a substitute string
FailurePaths == {"decode_err", "xlsx_err", "yaml_err", "json_err"}

\* ClickScan with a handler that shows a normalization failure and stops
ClickScanStopOnError ==
    /\ pc = "idle" /\ uploaded # NoFile /\ scans < MaxScans
    /\ \E n \in Notes, excel_pos \in ExcelCursors(uploaded) :
         LET o == parse_uploaded_file(uploaded, pos, excel_pos) IN
         /\ parsed' = o
         /\ pos' = o.pos
         /\ firstText' = IF calls = 0 THEN o.value ELSE firstText
         /\ notes' = n
         /\ IF o.path \in FailurePaths
              THEN /\ request' = NoRequest /\ sent' = sent /\ pc' = "idle"
                   /\ surfaced' = "normalization failed"
              ELSE /\ request' = [id |-> scans + 1, prompt |-> build_prompt(o.value, n)]
                   /\ sent' = sent + 1 /\ pc' = "waiting"
                   /\ surfaced' = "none"
    /\ calls' = calls + 1
    /\ scans' = scans + 1
    /\ report' = NoReport /\ download' = NoDownload
    /\ response' = NoResponse /\ result' = NoOutcome
    /\ UNCHANGED uploaded

\* lines 126-138 and 79-99: the button, with a file uploaded, up to the request
\* that call_llm sends
ClickScan ==
    /\ pc = "idle" /\ uploaded # NoFile /\ scans < MaxScans
    /\ \E n \in Notes, excel_pos \in ExcelCursors(uploaded) :
         LET o == parse_uploaded_file(uploaded, pos, excel_pos) IN
         /\ parsed' = o
         /\ pos' = o.pos
         /\ firstText' = IF calls = 0 THEN o.value ELSE firstText
         /\ notes' = n
         /\ request' = [id |-> scans + 1, prompt |-> build_prompt(o.value, n)]
    /\ calls' = calls + 1
    /\ scans' = scans + 1
    /\ sent' = sent + 1
    /\ pc' = "waiting"
    /\ report' = NoReport /\ download' = NoDownload /\ surfaced' = "none"
    /\ response' = NoResponse /\ result' = NoOutcome
    /\ UNCHANGED uploaded

\* NetworkRaise with the error caught and shown as if it were the report
NetworkRaiseShown ==
    /\ pc = "waiting"
    /\ \E e \in NetErrors :
         /\ result' = Raised(e, "create")
         /\ report' = [shown |-> TRUE, text |-> <<e>>]
         /\ download' = [offered |-> TRUE, data |-> <<e>>,
                         file_name |-> report_file_name(uploaded.name),
                         mime |-> "text/markdown"]
    /\ surfaced' = "none"
    /\ pc' = "idle"
    /\ UNCHANGED <<normVars, notes, request, sent, scans, response>>

\* NetworkRaise with one retry of the request
NetworkRaiseRetry ==
    /\ pc = "waiting"
    /\ IF sent = scans
         THEN /\ sent' = sent + 1
              /\ UNCHANGED <<pc, result, surfaced>>
         ELSE /\ \E e \in NetErrors :
                   /\ result' = Raised(e, "create")
                   /\ surfaced' = e
              /\ pc' = "idle"
              /\ UNCHANGED sent
    /\ UNCHANGED <<normVars, notes, request, scans, report, download, response>>

\* lines 92-99: client.responses.create raises; nothing catches it, the run ends
NetworkRaise ==
    /\ pc = "waiting"
    /\ \E e \in NetErrors :
         /\ result' = Raised(e, "create")
         /\ surfaced' = e
    /\ pc' = "idle"
    /\ UNCHANGED <<normVars, notes, request, sent, scans, report, download, response>>

\* lines 92-109 and 138-148: client.responses.create returns; the text is
\* extracted, shown and offered for download, unless the extraction raises
NetworkReturn ==
    /\ pc = "waiting"
    /\ \E r \in ScanResponses :
         LET res == extract_text(r) IN
         /\ response' = r
         /\ result' = res
         /\ IF res.kind = "return"
              THEN /\ report' = [shown |-> TRUE, text |-> res.value]
                   /\ download' = [offered |-> TRUE, data |-> res.value,
                                   file_name |-> report_file_name(uploaded.name),
                                   mime |-> "text/markdown"]
                   /\ surfaced' = "none"
              ELSE /\ surfaced' = res.value[1]
                   /\ UNCHANGED <<report, download>>
    /\ pc' = "idle"
    /\ UNCHANGED <<normVars, notes, request, sent, scans>>

Next ==
    \/ Upload
    \/ ClickWithoutFile
    \/ ClickScan
    \/ NetworkRaise
    \/ NetworkReturn

Spec == Init /\ [][Next]_vars

----------------------------------------------------------------------------
(* Reading a text as lines and fields *)

\* the lines of a text, split at every line break
RECURSIVE SplitLines(_, _, _)
SplitLines(text, i, line) ==
    IF i > Len(text) THEN (IF line = <<>> THEN <<>> ELSE <<line>>)
    ELSE IF text[i] = "\n" THEN <<line>> \o SplitLines(text, i + 1, <<>>)
    ELSE SplitLines(text, i + 1, Append(line, text[i]))

Lines(text) == SplitLines(text, 1, <<>>)

\* the fields of a line, split at every comma
FieldCount(line) == Count(line, ",") + 1

\* The field counts of the records of a CSV text: a comma or a line break
\* between double quotes belongs to the field.
RECURSIVE CsvScan(_, _, _, _)
CsvScan(text, i, quoted, fields) ==
    IF i > Len(text) THEN <<>>
    ELSE IF text[i] = "\"" THEN CsvScan(text, i + 1, ~quoted, fields)
    ELSE IF text[i] = "," /\ ~quoted THEN CsvScan(text, i + 1, quoted, fields + 1)
    ELSE IF text[i] = "\n" /\ ~quoted THEN <<fields>> \o CsvScan(text, i + 1, quoted, 1)
    ELSE CsvScan(text, i + 1, quoted, fields)

CsvRecords(text) == CsvScan(text, 1, FALSE, 1)

Rows(f) == Len(f.book.rows)
Cols(f) == Len(f.book.columns)

\* no label and no cell of the sheet holds a comma or a line break
PlainSheet(f) ==
    /\ \A k \in 1..Cols(f) :
         ~Contains(f.book.columns[k], ",") /\ ~Contains(f.book.columns[k], "\n")
    /\ \A n \in 1..Rows(f) : \A k \in 1..Cols(f) :
         ~Contains(f.book.rows[n][k], ",") /\ ~Contains(f.book.rows[n][k], "\n")

IsYaml(f) == endswith(lower(f.name), EXT_YAML) \/ endswith(lower(f.name), EXT_YML)
IsJson(f) == endswith(lower(f.name), EXT_JSON)
IsXlsx(f) == endswith(lower(f.name), EXT_XLSX)
Decodable(f) == ~Contains(f.bytes, BadByte)

\* the content is not a document of the format the name announces
Malformed(f) ==
    \/ IsYaml(f) /\ ~yaml_safe_load(f.bytes).ok
    \/ IsJson(f) /\ ~IsYaml(f) /\ ~json_loads(f.bytes).ok

----------------------------------------------------------------------------
(* Claims *)

\* C1: parse_uploaded_file never raises: every call, whatever the name and
\* the bytes of the file, ends by returning a string.
C1_NeverRaises == calls > 0 => parsed.kind = "return"

C1_Witness ==
    /\ calls > 0 /\ parsed.path = "json_err" /\ parsed.kind = "return"
    /\ Len(uploaded.bytes) > 0

\* C2: once the network call returned a response, call_llm returns a string
\* for every shape of the response.
C2_AlwaysReturnsString == result.kind # "none" => result.kind = "return"

\* C3: after parse_uploaded_file returns, the read cursor of the file is at 0.
\* Stated on the paths where the code itself moves the cursor (the file is
\* not a spreadsheet); on the spreadsheet paths the cursor is wherever
\* pd.read_excel left it.
C3_CursorAtStart == (calls > 0 /\ ~IsXlsx(uploaded)) => pos = 0

\* C4: a run whose network call raised renders no report and offers no
\* download: the report and the download exist only with the value call_llm
\* returned in this run.
C4_NoReportWithoutResult ==
    /\ (report.shown \/ download.offered) =>
          /\ result.kind = "return"
          /\ report = [shown |-> TRUE, text |-> result.value]
          /\ download.offered /\ download.data = result.value
    /\ result.kind = "raise" =>
          /\ ~report.shown /\ ~download.offered
          /\ pc = "idle" /\ surfaced = result.value[1]

C4_Witness ==
    /\ result.kind = "raise" /\ result.path = "create"
    /\ surfaced \in NetErrors /\ ~report.shown

Substitute ==
    CASE parsed.path = "decode_err" -> <<"Unable to decode file.">>
      [] parsed.path = "xlsx_err" -> <<"ERROR reading Excel: ", uploaded.book.err>>
      [] OTHER -> parsed.content

\* C6: after a normalization failure (UTF-8, spreadsheet, YAML, JSON) the scan
\* goes on: its request is issued and carries the substitute string (the
\* decode message, the spreadsheet error string, or the raw text).
C6_FailureFlowsOn ==
    parsed.path \in FailurePaths =>
        /\ sent = scans
        /\ request = [id |-> scans, prompt |-> build_prompt(Substitute, notes)]

C6_Witness ==
    /\ parsed.path = "decode_err" /\ pc = "waiting"
    /\ request.prompt = build_prompt(<<"Unable to decode file.">>, notes)

RECURSIVE FirstTexts(_, _)
FirstTexts(output, k) ==
    IF k > Len(output) THEN <<>>
    ELSE LET c == output[k].content
             with == {j \in 1..Len(c) : c[j].has_text}
         IN IF output[k].has_content /\ with # {}
              THEN <<c[CHOOSE j \in with : \A m \in with : j <= m].text>>
              ELSE FirstTexts(output, k + 1)

\* C8: without a direct text field, call_llm returns the text of the first
\* output item that has textual content, skipping the items that have none.
C8_FirstTextualContent ==
    (/\ result.kind # "none" /\ ~response.has_output_text /\ response.has_output
     /\ FirstTexts(response.output, 1) # <<>>) =>
        /\ result.kind = "return"
        /\ result.value = FirstTexts(response.output, 1)[1]

\* C9: normalizing the same file object again returns the same string as the
\* first time.
C9_SameTextEveryCall == calls > 0 => parsed.value = firstText

\* C10, as claimed: a sheet of N rows and M columns gives N+1 lines of M
\* comma-separated fields each, whatever the cells hold.
C10_LinesAndFields ==
    (calls > 0 /\ parsed.path = "xlsx_ok") =>
        /\ Len(Lines(parsed.value)) = Rows(uploaded) + 1
        /\ \A i \in 1..Len(Lines(parsed.value)) :
             FieldCount(Lines(parsed.value)[i]) = Cols(uploaded)

\* C10, amended: a sheet of N rows and M >= 1 columns gives N+1 CSV records of
\* M fields each, a comma or line break inside a quoted field not counting;
\* they are N+1 lines of M comma-separated fields when no label and no cell
\* holds a comma or a line break.
C10_CsvRecords ==
    (calls > 0 /\ parsed.path = "xlsx_ok") =>
        /\ CsvRecords(parsed.value) = [n \in 1..(Rows(uploaded) + 1) |-> Cols(uploaded)]
        /\ PlainSheet(uploaded) =>
             /\ Len(Lines(parsed.value)) = Rows(uploaded) + 1
             /\ \A i \in 1..Len(Lines(parsed.value)) :
                  FieldCount(Lines(parsed.value)[i]) = Cols(uploaded)

C10_Witness ==
    /\ calls > 0 /\ parsed.path = "xlsx_ok"
    /\ Rows(uploaded) = 1 /\ Cols(uploaded) = 2
    /\ uploaded.book.rows[1] = << <<",">>, <<"\n">> >>

====
